---- MODULE Spec2Model ----
(***************************************************************************)
(* Batch photo processor: the upload intake, the batch orchestrator with   *)
(* its worker pool (server.js), the image pipeline run by each worker      *)
(* thread (worker.js) and the RAW converter chain (server.js).             *)
(*                                                                         *)
(* A file name is the record [base, ext] where ext is what path.extname    *)
(* returns (the last dot and what follows it); the name's text is          *)
(* base \o ext.  JavaScript's 0-based idx is kept as is: files[idx] of the *)
(* source is files[idx + 1] here.                                          *)
(***************************************************************************)
EXTENDS Integers, Sequences, FiniteSets, TLC

\* ------------------------------------------------------------------ bounds
MaxFiles == 3      \* photos in one upload request
MaxCpus == 3       \* os.cpus().length of the host
MaxConversions == 2   \* ensureRasterInput calls on the same scratch directory

\* ------------------------------------------------------------- file names
FileName(b, e) == [base |-> b, ext |-> e]

\* String.prototype.toLowerCase on the extensions the model uses
ToLowerCase(e) ==
  CASE e = ".JPG" -> ".jpg"
    [] e = ".DNG" -> ".dng"
    [] OTHER -> e

\* the names a client may upload
UploadNames ==
  { FileName("a", ".jpg"), FileName("a", ".dng"), FileName("b", ".png"),
    FileName("c", ".gif") }

\* multer fileFilter
FilterAllowed == {".jpg", ".jpeg", ".png", ".webp", ".dng", ".cr2", ".nef"}
FileFilter(f) == ToLowerCase(f.ext) \in FilterAllowed

\* runOne: filename.replace(/\.(dng|cr2|nef)$/i, '.jpg')
OrchestratorRawExts == {".dng", ".cr2", ".nef"}
OutputPath(filename) ==
  IF ToLowerCase(filename.ext) \in OrchestratorRawExts
    THEN FileName(filename.base, ".jpg")
    ELSE filename

\* worker main: outExt and outPathFinal
EncoderExts == {".jpg", ".jpeg", ".png", ".webp"}
OutExt(outputPath) ==
  IF ToLowerCase(outputPath.ext) \in EncoderExts
    THEN ToLowerCase(outputPath.ext) ELSE ".jpg"
OutPathFinal(outputPath) ==
  IF outputPath.ext = "" THEN outputPath
  ELSE FileName(outputPath.base, OutExt(outputPath))

\* RAW helper tables
RAW_EXTS == {".dng", ".arw", ".cr2", ".cr3", ".nef", ".orf", ".raf", ".rw2", ".srw"}
RASTER_OK == {".jpg", ".jpeg", ".png", ".tif", ".tiff", ".webp", ".bmp"}

\* worker main: the path handed to sharp() for decoding
DecodeTarget(inputPath) == inputPath

\* ------------------------------------------------------------ error texts
NoError == "<undefined>"

\* String(err) of an Error object with the given message
ErrorToString(message) == IF message = "" THEN "Error" ELSE "Error: " \o message

\* worker main catch: String((err && err.message) || err)
WorkerErrorText(message) == IF message # "" THEN message ELSE ErrorToString(message)

NoOutputMessage ==
  "Er zijn geen bewerkte bestanden geproduceerd (mogelijk faalden alle items)."

\* ------------------------------------------------------------ the requests
ValidModes == {"edit-watermark", "edit-only", "watermark-only"}
NeedEdit(mode) == mode \in {"edit-watermark", "edit-only"}
NeedWatermark(mode) == mode \in {"edit-watermark", "watermark-only"}

\* req.query of the upload request; a missing parameter is ""
Queries ==
  { [mode |-> "edit-watermark", dateText |-> "2024-05-01", eventText |-> "Team Offsite"],
    [mode |-> "edit-only", dateText |-> "", eventText |-> ""],
    [mode |-> "watermark-only", dateText |-> "", eventText |-> "Team Offsite"],
    [mode |-> "sepia", dateText |-> "", eventText |-> ""],
    [mode |-> "", dateText |-> "2024-05-01", eventText |-> "Team Offsite"] }

RECURSIVE SeqsUpTo(_, _)
SeqsUpTo(S, n) ==
  IF n = 0 THEN { << >> }
  ELSE LET shorter == SeqsUpTo(S, n - 1)
       IN shorter \cup { Append(q, x) : q \in { r \in shorter : Len(r) = n - 1 }, x \in S }

PhotoLists == SeqsUpTo(UploadNames, MaxFiles)
CpuCounts == { MaxCpus - 1, MaxCpus }

VARIABLES
  req,        \* the upload request: query parameters and the photos of the form
  cpus,       \* os.cpus().length
  res,        \* HTTP status of the upload response, 0 while none was sent
  pc,         \* where the request and processBatchInBackground stand
  batches,    \* the registry: sequence of the batch records created
  uploadsDir, \* the batch's uploads directory: its names in creation order
  outDir,     \* names in the batch's output directory
  zipFile,    \* the archive at batch.zipPath: "absent", "partial", "complete"
  files,      \* processBatchInBackground: files
  idx,        \* processBatchInBackground: idx
  slots,      \* one entry per runNext() promise of the pool
  statusLog,  \* every value assigned to batch.status, in order
  claimed,    \* the filenames handed to runWorker, in order
  writes,     \* [input, out] for every file a worker wrote under a final name
  updates,    \* per FileRecord, how many times it was mutated
  outFiles,   \* processBatchInBackground: outFiles
  ran,        \* [file, end] for every worker thread that has run: how it ended
  decoded,    \* the paths handed to sharp() for decoding
  inputPath,  \* ensureRasterInput: inputPath
  rpc,        \* ensureRasterInput: "off", "start", "loop", "returned", "thrown"
  tmpFiles,   \* the names present in the scratch directory raw2tiff
  sidecar,    \* whether <base>.tiff exists next to the input
  attempted,  \* ensureRasterInput: the attempts made, in order
  result,     \* ensureRasterInput: the path returned or the message thrown
  calls,      \* [input, tif] per ensureRasterInput call so far: its outTif
  download,   \* the last response of GET /api/download/:id
  wpc,        \* worker.js: where the overlay code stands
  fullText,   \* wrapTextToWidth: fullText, as its words in order
  fontSize,   \* wrapTextToWidth: fontSize
  maxLineWidth, \* wrapTextToWidth: maxLineWidth
  wrapped,    \* wrapTextToWidth: the value returned
  meta,       \* worker main: image.metadata()
  workerData, \* worker main: dateText and eventText, as their words in order
  logoFile,   \* the file at logoPath
  overlay,    \* worker main: overlay
  composite   \* worker main: left and top handed to image.composite

vars == << req, cpus, res, pc, batches, uploadsDir, outDir, zipFile, files, idx,
           slots, statusLog, claimed, writes, updates, outFiles, ran, decoded,
           inputPath, rpc, tmpFiles, sidecar, attempted, result, calls,
           download, wpc, fullText, fontSize, maxLineWidth, wrapped, meta,
           workerData, logoFile, overlay, composite >>

batchVars == << req, cpus, res, pc, batches, uploadsDir, outDir, zipFile, files, idx,
                slots, statusLog, claimed, writes, updates, outFiles, ran, decoded >>
rasterVars == << inputPath, rpc, tmpFiles, sidecar, attempted, result, calls >>
wrapVars == << fullText, fontSize, maxLineWidth, wrapped >>
overlayVars == << meta, workerData, logoFile, overlay, composite >>

Batch == batches[1]

\* ------------------------------------------------------------- createBatch
createBatch(q) ==
  [ id |-> 1, mode |-> q.mode, dateText |-> q.dateText, eventText |-> q.eventText,
    total |-> 0, processed |-> 0, failed |-> 0, status |-> "uploading",
    files |-> << >>, error |-> NoError ]

ModeValid(q) == q.mode # "" /\ q.mode \in ValidModes
\* TextsValid testing eventText alone
TextsValid_EventOnly(q) == ~ (NeedWatermark(q.mode) /\ q.eventText = "")

TextsValid(q) ==
  ~ (NeedWatermark(q.mode) /\ (q.dateText = "" \/ q.eventText = ""))

NoFile == FileName("", "")
NoResult == [ kind |-> "none", path |-> NoFile, message |-> "" ]

BatchIdle ==
  /\ res = 0
  /\ batches = << >>
  /\ uploadsDir = << >>
  /\ outDir = {}
  /\ zipFile = "absent"
  /\ files = << >>
  /\ idx = 0
  /\ slots = << >>
  /\ statusLog = << >>
  /\ claimed = << >>
  /\ writes = {}
  /\ updates = << >>
  /\ outFiles = {}
  /\ ran = {}
  /\ decoded = {}

RasterIdle ==
  /\ inputPath = NoFile
  /\ rpc = "off"
  /\ tmpFiles = {}
  /\ sidecar = FALSE
  /\ attempted = << >>
  /\ result = NoResult
  /\ calls = << >>

\* no overlay is being built
NoLogo == [ kind |-> "absent", width |-> 0, height |-> 0 ]
NoOverlay ==
  [ width |-> 0, height |-> 0, fontSize |-> 0, marginPx |-> 0, lines |-> << >>,
    logoHeight |-> 0 ]
WrapIdle ==
  /\ fullText = << >>
  /\ fontSize = 0
  /\ maxLineWidth = 0
  /\ wrapped = << >>
OverlayIdle ==
  /\ meta = [ width |-> 0, height |-> 0 ]
  /\ workerData = [ dateText |-> << >>, eventText |-> << >> ]
  /\ logoFile = NoLogo
  /\ overlay = NoOverlay
  /\ composite = [ left |-> 0, top |-> 0 ]
WorkerIdle == wpc = "off" /\ WrapIdle /\ OverlayIdle

\* no download request was answered yet
NoDownload == [ id |-> 0, code |-> 0, served |-> "nothing", at |-> "", zip |-> "" ]
DownloadIdle == download = NoDownload

Init ==
  /\ req \in [ query : Queries, photos : PhotoLists ]
  /\ cpus \in CpuCounts
  /\ pc = "request"
  /\ BatchIdle
  /\ RasterIdle
  /\ DownloadIdle
  /\ WorkerIdle

\* POST /api/upload, first middleware
UploadMiddleware ==
  /\ pc = "request"
  /\ IF ~ ModeValid(req.query) \/ ~ TextsValid(req.query)
       THEN /\ res' = 400
            /\ pc' = "responded"
            /\ UNCHANGED << batches, statusLog >>
       ELSE /\ batches' = Append(batches, createBatch(req.query))
            /\ statusLog' = << "uploading" >>
            /\ pc' = "multer"
            /\ UNCHANGED res
  /\ UNCHANGED << req, cpus, uploadsDir, outDir, zipFile, files, idx, slots,
                  claimed, writes, updates,
                  outFiles, ran, decoded, rasterVars, download,
                  wpc, wrapVars, overlayVars >>

\* express's error handler after multer (upload.array) passed an error to next()
MulterRejects ==
  /\ pc = "multer"
  /\ \E i \in 1..Len(req.photos) : ~ FileFilter(req.photos[i])
  /\ res' = 500
  /\ pc' = "responded"
  /\ UNCHANGED << req, cpus, batches, uploadsDir, outDir, zipFile, files, idx, slots,
                  statusLog, claimed, writes, updates,
                  outFiles, ran, decoded, rasterVars, download,
                  wpc, wrapVars, overlayVars >>

\* the distinct names of a photo list in the order multer created them
RECURSIVE CreationOrder(_)
CreationOrder(photos) ==
  IF photos = << >> THEN << >>
  ELSE LET front == CreationOrder(SubSeq(photos, 1, Len(photos) - 1))
           last == photos[Len(photos)]
       IN IF \E i \in 1..Len(front) : front[i] = last THEN front
          ELSE Append(front, last)

Reverse(q) == [ i \in 1..Len(q) |-> q[Len(q) + 1 - i] ]

\* the orders fs.readdir lists the uploads directory in: directory order,
\* taken here to be the order of creation or its reverse
Listings(dir) == { dir, Reverse(dir) }

\* batch.files = req.files.map(f => ({ name: f.originalname, status: 'queued' }))
FileRecords(photos) ==
  [ i \in 1..Len(photos) |-> [ name |-> photos[i], status |-> "queued", error |-> NoError ] ]

\* POST /api/upload, the handler after multer stored every photo, up to the
\* first await of processBatchInBackground
UploadHandler ==
  /\ pc = "multer"
  /\ \A i \in 1..Len(req.photos) : FileFilter(req.photos[i])
  /\ uploadsDir' = CreationOrder(req.photos)
  /\ batches' = [ batches EXCEPT ![1].files = FileRecords(req.photos),
                                 ![1].total = Len(req.photos),
                                 ![1].status = "processing" ]
  /\ statusLog' = statusLog \o << "queued", "processing" >>
  /\ updates' = [ i \in 1..Len(req.photos) |-> 0 ]
  /\ res' = 200
  /\ pc' = "mkdir"
  /\ UNCHANGED << req, cpus, outDir, zipFile, files, idx, slots, claimed, writes,
                  outFiles, ran, decoded, rasterVars, download,
                  wpc, wrapVars, overlayVars >>

\* processBatchInBackground(batch).catch(err => ...)
Caught(b, message) == [ b EXCEPT !.status = "error", !.error = ErrorToString(message) ]

\* await fs.mkdir(outDir, { recursive: true })
MkdirOutDir ==
  /\ pc = "mkdir"
  /\ \E ok \in BOOLEAN :
       IF ok
         THEN /\ pc' = "readdir"
              /\ UNCHANGED << batches, statusLog >>
         ELSE /\ batches' = [ batches EXCEPT ![1] = Caught(@, "EACCES: permission denied, mkdir") ]
              /\ statusLog' = Append(statusLog, "error")
              /\ pc' = "caught"
  /\ UNCHANGED << req, cpus, res, uploadsDir, outDir, zipFile, files, idx, slots,
                  claimed, writes, updates,
                  outFiles, ran, decoded, rasterVars, download,
                  wpc, wrapVars, overlayVars >>

\* Math.min(4, Math.max(1, (os.cpus()?.length || 2) - 1))
Min(a, b) == IF a < b THEN a ELSE b
Max(a, b) == IF a > b THEN a ELSE b
\* workerCount without the cap of 4
workerCount_NoCap(n) == Max(1, (IF n = 0 THEN 2 ELSE n) - 1)

\* Math.min(4, Math.max(1, (os.cpus()?.length || 2) - 1))
workerCount(n) == Min(4, Max(1, (IF n = 0 THEN 2 ELSE n) - 1))

SlotResolved == [ st |-> "resolved", file |-> NoFile, events |-> << >> ]

\* runOne with files[++idx] in place of files[idx++]
runOne_PreIncrement(p, s, fs) ==
  IF p.idx + 2 > Len(fs)
    THEN [ idx |-> p.idx + 1,
           slots |-> [ p.slots EXCEPT ![s] = SlotResolved ],
           claimed |-> p.claimed ]
    ELSE [ idx |-> p.idx + 1,
           slots |-> [ p.slots EXCEPT ![s] =
                         [ st |-> "running", file |-> fs[p.idx + 2], events |-> << >> ] ],
           claimed |-> Append(p.claimed, fs[p.idx + 2]) ]

\* runOne up to its await: claim files[idx++], resolve the slot when there is
\* none, else start a worker on it.  p is the pool state [idx, slots, claimed].
runOne(p, s, fs) ==
  IF p.idx + 1 > Len(fs)
    THEN [ idx |-> p.idx + 1,
           slots |-> [ p.slots EXCEPT ![s] = SlotResolved ],
           claimed |-> p.claimed ]
    ELSE [ idx |-> p.idx + 1,
           slots |-> [ p.slots EXCEPT ![s] =
                         [ st |-> "running", file |-> fs[p.idx + 1], events |-> << >> ] ],
           claimed |-> Append(p.claimed, fs[p.idx + 1]) ]

\* Promise.all(Array.from({ length: workerCount }, () => runNext()))
RECURSIVE StartPool(_, _, _)
StartPool(p, s, fs) ==
  IF s > Len(p.slots) THEN p ELSE StartPool(runOne(p, s, fs), s + 1, fs)

\* await fs.readdir(uploadsDir), then the pool is started
ReaddirUploads ==
  /\ pc = "readdir"
  /\ \E ok \in BOOLEAN :
       IF ok /\ uploadsDir # << >>
         THEN \E listing \in Listings(uploadsDir) :
                LET p == StartPool([ idx |-> 0,
                                     slots |-> [ s \in 1..workerCount(cpus) |-> SlotResolved ],
                                     claimed |-> << >> ], 1, listing)
                IN /\ files' = listing
                   /\ idx' = p.idx
                   /\ slots' = p.slots
                   /\ claimed' = p.claimed
                   /\ pc' = "pool"
                   /\ UNCHANGED << batches, statusLog >>
         ELSE /\ batches' = [ batches EXCEPT ![1] = Caught(@, "ENOENT: no such file or directory, scandir") ]
              /\ statusLog' = Append(statusLog, "error")
              /\ pc' = "caught"
              /\ UNCHANGED << files, idx, slots, claimed >>
  /\ UNCHANGED << req, cpus, res, uploadsDir, outDir, zipFile, writes, updates,
                  outFiles, ran, decoded, rasterVars, download,
                  wpc, wrapVars, overlayVars >>

\* ------------------------------------------------------- the worker thread
\* the awaited calls of worker main that can throw inside its try block:
\* image.metadata() (decoding the header), buildWatermarkOverlay (only when
\* the mode needs a watermark) and pipeline.toFile, which runs the whole lazy
\* pipeline: decode, adjust, composite, encode and write
Steps(mode) ==
  {"metadata", "toFile"} \cup (IF NeedWatermark(mode) THEN {"overlay"} ELSE {})

\* err.message of what the step throws
ThrownMessage(step) ==
  CASE step = "metadata" -> "Input file contains unsupported image format"
    [] step = "overlay" -> ""
    [] OTHER -> "ENOSPC: no space left on device, write"

\* what can become of one worker thread: it runs to the end ("done"), a step
\* throws inside the try block (the step's name), the thread dies of an
\* uncaught error ("uncaught"), it exits with a non-zero code ("crash") or it
\* exits with code 0 having posted nothing ("exit0").  partial: toFile failed
\* but left a file under the final name (it writes the final path directly).
Outcomes(mode) ==
  { [ end |-> e, partial |-> FALSE ] :
      e \in {"done", "uncaught", "crash", "exit0"} \cup Steps(mode) }
    \cup { [ end |-> "toFile", partial |-> TRUE ] }

Event(t, text, code) == [ type |-> t, text |-> text, code |-> code ]

\* the events the parent's Worker object emits for an outcome, in order
WorkerEvents(o) ==
  CASE o.end = "done" -> << Event("done", "", 0), Event("exit", "", 0) >>
    [] o.end = "uncaught" -> << Event("uncaught", "Cannot find module 'sharp'", 0),
                               Event("exit", "", 1) >>
    [] o.end = "crash" -> << Event("exit", "", 1) >>
    [] o.end = "exit0" -> << Event("exit", "", 0) >>
    [] OTHER -> << Event("error", WorkerErrorText(ThrownMessage(o.end)), 0),
                   Event("exit", "", 0) >>

\* worker main: whether pipeline.toFile(outPathFinal) left a file
WroteFile(o) == o.end = "done" \/ o.partial

\* worker main, run by the thread started for slot s
WorkerMain(s) ==
  /\ pc = "pool"
  /\ s \in DOMAIN slots
  /\ slots[s].st = "running"
  /\ \E o \in Outcomes(Batch.mode) :
       LET out == OutPathFinal(OutputPath(slots[s].file))
       IN /\ slots' = [ slots EXCEPT ![s].st = "exited", ![s].events = WorkerEvents(o) ]
          /\ IF WroteFile(o)
               THEN /\ outDir' = outDir \cup { out }
                    /\ writes' = writes \cup { [ input |-> slots[s].file, out |-> out ] }
               ELSE UNCHANGED << outDir, writes >>
          /\ ran' = ran \cup { [ file |-> slots[s].file, end |-> o.end ] }
          /\ decoded' = decoded \cup { DecodeTarget(slots[s].file) }
  /\ UNCHANGED << req, cpus, res, pc, batches, uploadsDir, zipFile, files, idx,
                  statusLog, claimed, updates,
                  outFiles, rasterVars, download,
                  wpc, wrapVars, overlayVars >>

\* ------------------------------------------------------------- runWorker
Pending == [ state |-> "pending", message |-> "" ]

\* one listener call of runWorker on a promise in state p
OnEvent(p, e) ==
  IF p.state # "pending" THEN p
  ELSE CASE e.type = "done" -> [ state |-> "resolved", message |-> "" ]
         [] e.type = "error" -> [ state |-> "rejected", message |-> e.text ]
         [] e.type = "uncaught" -> [ state |-> "rejected", message |-> e.text ]
         [] e.type = "exit" /\ e.code # 0 ->
              [ state |-> "rejected",
                message |-> "Worker exited with code " \o ToString(e.code) ]
         [] OTHER -> p

\* the state of runWorker's promise once the events were delivered
RECURSIVE runWorker(_, _)
runWorker(p, events) ==
  IF events = << >> THEN p ELSE runWorker(OnEvent(p, Head(events)), Tail(events))

\* batch.files.find(x => x.name === filename): its index, 0 when there is none
Find(records, filename) ==
  IF \E i \in 1..Len(records) : records[i].name = filename
    THEN CHOOSE i \in 1..Len(records) :
           /\ records[i].name = filename
           /\ \A j \in 1..(i - 1) : records[j].name # filename
    ELSE 0

\* Record with the catch branch counting the file in both counters
Record_FailureCountedTwice(b, p, filename) ==
  LET i == Find(b.files, filename)
  IN IF p.state = "resolved"
       THEN [ b EXCEPT !.processed = @ + 1,
                       !.files = IF i = 0 THEN @
                                 ELSE [ @ EXCEPT ![i].status = "ok" ] ]
       ELSE [ b EXCEPT !.failed = @ + 1, !.processed = @ + 1,
                       !.files = IF i = 0 THEN @
                                 ELSE [ @ EXCEPT ![i].status = "failed",
                                                 ![i].error = ErrorToString(p.message) ] ]

\* Record with the catch branch counting the file as processed
Record_FailureCountedProcessed(b, p, filename) ==
  LET i == Find(b.files, filename)
  IN IF p.state = "resolved"
       THEN [ b EXCEPT !.processed = @ + 1,
                       !.files = IF i = 0 THEN @
                                 ELSE [ @ EXCEPT ![i].status = "ok" ] ]
       ELSE [ b EXCEPT !.processed = @ + 1,
                       !.files = IF i = 0 THEN @
                                 ELSE [ @ EXCEPT ![i].status = "failed",
                                                 ![i].error = ErrorToString(p.message) ] ]

\* runOne's .then(...) and .catch(...) on the settled promise p of a filename
Record(b, p, filename) ==
  LET i == Find(b.files, filename)
  IN IF p.state = "resolved"
       THEN [ b EXCEPT !.processed = @ + 1,
                       !.files = IF i = 0 THEN @
                                 ELSE [ @ EXCEPT ![i].status = "ok" ] ]
       ELSE [ b EXCEPT !.failed = @ + 1,
                       !.files = IF i = 0 THEN @
                                 ELSE [ @ EXCEPT ![i].status = "failed",
                                                 ![i].error = ErrorToString(p.message) ] ]

\* the parent handles the events of slot s's worker: runWorker settles, runOne
\* records the outcome and claims the next filename
WorkerSettled(s) ==
  /\ pc = "pool"
  /\ s \in DOMAIN slots
  /\ slots[s].st = "exited"
  /\ LET p == runWorker(Pending, slots[s].events)
         i == Find(Batch.files, slots[s].file)
     IN IF p.state = "pending"
          THEN /\ slots' = [ slots EXCEPT ![s].st = "hung", ![s].events = << >> ]
               /\ UNCHANGED << batches, idx, claimed, updates >>
          ELSE LET q == runOne([ idx |-> idx, slots |-> slots, claimed |-> claimed ],
                               s, files)
               IN /\ batches' = [ batches EXCEPT ![1] = Record(@, p, slots[s].file) ]
                  /\ updates' = IF i = 0 THEN updates
                                ELSE [ updates EXCEPT ![i] = @ + 1 ]
                  /\ idx' = q.idx
                  /\ slots' = q.slots
                  /\ claimed' = q.claimed
  /\ UNCHANGED << req, cpus, res, pc, uploadsDir, outDir, zipFile, files, statusLog,
                  writes,
                  outFiles, ran, decoded, rasterVars, download,
                  wpc, wrapVars, overlayVars >>

\* ------------------------------------------------ after the pool has joined
\* Promise.race in the place of Promise.all
PoolJoined_FirstSlot == \E s \in DOMAIN slots : slots[s].st = "resolved"

\* await Promise.all(workers)
PoolJoined == \A s \in DOMAIN slots : slots[s].st = "resolved"

\* CheckOutputs without the empty check: the archiver is always started
CheckOutputs_NoEmptyCheck ==
  /\ pc = "pool"
  /\ PoolJoined
  /\ \E ok \in BOOLEAN :
       /\ outFiles' = IF ok THEN outDir ELSE {}
       /\ batches' = [ batches EXCEPT ![1].status = "zipping" ]
       /\ statusLog' = Append(statusLog, "zipping")
       /\ pc' = "zipping"
       /\ zipFile' = "partial"
  /\ UNCHANGED << req, cpus, res, uploadsDir, outDir, files, idx, slots, claimed,
                  writes, updates, ran, decoded, rasterVars, download,
                  wpc, wrapVars, overlayVars >>

\* CheckOutputs without the return after the empty check: the batch is set
\* to error and the archiver is started all the same
CheckOutputs_NoReturn ==
  /\ pc = "pool"
  /\ PoolJoined
  /\ \E ok \in BOOLEAN :
       LET listed == IF ok THEN outDir ELSE {}
       IN /\ outFiles' = listed
          /\ IF listed = {}
              THEN /\ batches' = [ batches EXCEPT ![1].status = "zipping",
                                                  ![1].error = NoOutputMessage ]
                   /\ statusLog' = statusLog \o << "error", "zipping" >>
              ELSE /\ batches' = [ batches EXCEPT ![1].status = "zipping" ]
                   /\ statusLog' = Append(statusLog, "zipping")
          /\ pc' = "zipping"
          /\ zipFile' = "partial"
  /\ UNCHANGED << req, cpus, res, uploadsDir, outDir, files, idx, slots, claimed,
                  writes, updates, ran, decoded, rasterVars, download,
                  wpc, wrapVars, overlayVars >>

\* fs.readdir(outDir).catch(() => []), the empty check, and the start of
\* zipDirectory
CheckOutputs ==
  /\ pc = "pool"
  /\ PoolJoined
  /\ \E ok \in BOOLEAN :
       LET listed == IF ok THEN outDir ELSE {}
       IN /\ outFiles' = listed
          /\ IF listed = {}
              THEN /\ batches' = [ batches EXCEPT ![1].status = "error",
                                                  ![1].error = NoOutputMessage ]
                   /\ statusLog' = Append(statusLog, "error")
                   /\ pc' = "finished"
                   /\ UNCHANGED zipFile
              ELSE /\ batches' = [ batches EXCEPT ![1].status = "zipping" ]
                   /\ statusLog' = Append(statusLog, "zipping")
                   /\ pc' = "zipping"
                   /\ zipFile' = "partial"
  /\ UNCHANGED << req, cpus, res, uploadsDir, outDir, files, idx, slots, claimed,
                  writes, updates,
                  ran, decoded, rasterVars, download,
                  wpc, wrapVars, overlayVars >>

\* zipDirectory: output.on('close', resolve), then batch.status = 'done'
ZipClose ==
  /\ pc = "zipping"
  /\ zipFile' = "complete"
  /\ batches' = [ batches EXCEPT ![1].status = "done" ]
  /\ statusLog' = Append(statusLog, "done")
  /\ pc' = "finished"
  /\ UNCHANGED << req, cpus, res, uploadsDir, outDir, files, idx, slots, claimed,
                  writes, updates,
                  outFiles, ran, decoded, rasterVars, download,
                  wpc, wrapVars, overlayVars >>

\* zipDirectory: archive.on('error', reject), caught by the upload handler
ZipError ==
  /\ pc = "zipping"
  /\ batches' = [ batches EXCEPT ![1] = Caught(@, "archiver: entry read failed") ]
  /\ statusLog' = Append(statusLog, "error")
  /\ pc' = "caught"
  /\ UNCHANGED << req, cpus, res, uploadsDir, outDir, zipFile, files, idx, slots,
                  claimed, writes, updates,
                  outFiles, ran, decoded, rasterVars, download,
                  wpc, wrapVars, overlayVars >>

\* zipDirectory: createWriteStream(zipPath) fails to open or to write. No
\* 'error' listener is on output, so the event is thrown as an uncaught
\* exception and the server process ends with the batch as it was.
ZipOutputError ==
  /\ pc = "zipping"
  /\ pc' = "crashed"
  /\ UNCHANGED << req, cpus, res, batches, uploadsDir, outDir, zipFile, files, idx,
                  slots, statusLog, claimed, writes, updates,
                  outFiles, ran, decoded, rasterVars, download,
                  wpc, wrapVars, overlayVars >>

Next ==
  \/ UploadMiddleware
  \/ MulterRejects
  \/ UploadHandler
  \/ MkdirOutDir
  \/ ReaddirUploads
  \/ \E s \in 1..4 : WorkerMain(s)
  \/ \E s \in 1..4 : WorkerSettled(s)
  \/ CheckOutputs
  \/ ZipClose
  \/ ZipError
  \/ ZipOutputError

Spec == Init /\ [][Next]_vars

\* the same program with every step that can be taken eventually taken: the
\* event loop runs the handlers of settled promises, every worker thread runs
\* to one of its ends, and the archiver closes or fails
SpecLive == Init /\ [][Next]_vars /\ WF_vars(Next)

\* ------------------------------------------------- the pool at its limits
\* os.cpus().length where the pool size meets its bounds: 0 (no CPU
\* information: the fallback 2), 1 (the floor of one slot) and 8 (the cap of 4)
PoolCpuCounts == { 0, 1, 8 }

\* an upload of more photos than the pool has slots
PoolPhotos ==
  << FileName("a", ".jpg"), FileName("a", ".dng"), FileName("b", ".png"),
     FileName("d", ".jpg"), FileName("e", ".png") >>

\* the same upload, and with a file the filter rejects
PoolPhotoLists == { PoolPhotos, Append(PoolPhotos, FileName("c", ".gif")) }

InitPool ==
  /\ req \in [ query : { [ mode |-> "edit-only", dateText |-> "", eventText |-> "" ] },
                photos : PoolPhotoLists ]
  /\ cpus \in PoolCpuCounts
  /\ pc = "request"
  /\ BatchIdle
  /\ RasterIdle
  /\ DownloadIdle
  /\ WorkerIdle

SpecPool == InitPool /\ [][Next]_vars

\* -------------------------------------------------- GET /api/download/:id
\* the batch ids a download request may name: the batch of the upload request
\* and an id the registry never held
DownloadIds == { 1, 2 }

\* the photos of the upload request whose archive is asked for
DownloadPhotoLists ==
  SeqsUpTo({ FileName("a", ".jpg"), FileName("b", ".png"), FileName("c", ".gif") },
           MaxFiles - 1)

InitDownload ==
  /\ req \in [ query : Queries, photos : DownloadPhotoLists ]
  /\ cpus \in CpuCounts
  /\ pc = "request"
  /\ BatchIdle
  /\ RasterIdle
  /\ DownloadIdle
  /\ WorkerIdle

\* the handler with the status test left out
Download_NoStatusCheck(id) ==
  /\ pc # "crashed"
  /\ download' =
       IF id \notin 1..Len(batches)
         THEN [ id |-> id, code |-> 404, served |-> "nothing",
                at |-> "unknown", zip |-> zipFile ]
       ELSE IF zipFile = "absent"
         THEN [ id |-> id, code |-> 404, served |-> "nothing",
                at |-> batches[id].status, zip |-> zipFile ]
       ELSE [ id |-> id, code |-> 200, served |-> zipFile,
              at |-> batches[id].status, zip |-> zipFile ]
  /\ UNCHANGED << batchVars, rasterVars, wpc, wrapVars, overlayVars >>

\* the handler of a running server: 404 for an unknown id, 409 unless the
\* status is done, 404 when no file is at zipPath, and res.download(zipPath)
\* otherwise. served is
\* the state of the file that is sent; at and zip record what the handler read.
Download(id) ==
  /\ pc # "crashed"
  /\ download' =
       IF id \notin 1..Len(batches)
         THEN [ id |-> id, code |-> 404, served |-> "nothing",
                at |-> "unknown", zip |-> zipFile ]
       ELSE IF batches[id].status # "done"
         THEN [ id |-> id, code |-> 409, served |-> "nothing",
                at |-> batches[id].status, zip |-> zipFile ]
       ELSE IF zipFile = "absent"
         THEN [ id |-> id, code |-> 404, served |-> "nothing",
                at |-> batches[id].status, zip |-> zipFile ]
       ELSE [ id |-> id, code |-> 200, served |-> zipFile,
              at |-> batches[id].status, zip |-> zipFile ]
  /\ UNCHANGED << batchVars, rasterVars, wpc, wrapVars, overlayVars >>

\* the archive of a finished batch is removed from the data directory by
\* something other than this program
ArchiveRemoved ==
  /\ zipFile = "complete"
  /\ pc = "finished"
  /\ zipFile' = "absent"
  /\ UNCHANGED << req, cpus, res, pc, batches, uploadsDir, outDir, files, idx,
                  slots, statusLog, claimed, writes, updates, outFiles, ran,
                  decoded, rasterVars, download,
                  wpc, wrapVars, overlayVars >>

NextDownload ==
  \/ Next
  \/ \E id \in DownloadIds : Download(id)
  \/ ArchiveRemoved

SpecDownload == InitDownload /\ [][NextDownload]_vars

\* ------------------------------------------------------ ensureRasterInput
\* path.basename(p, ext): the suffix is dropped only when it matches exactly
Basename(p, ext) == IF ext # "" /\ p.ext = ext THEN p.base ELSE p.base \o p.ext

\* path.basename(p)
OriginalName(p) == p.base \o p.ext

\* outTif, as a name in the scratch directory
OutTif(p) == FileName(Basename(p, ToLowerCase(p.ext)), ".tif")

\* the attempts array: the commands in the order they are tried
Attempts == << "darktable-cli", "rawtherapee-cli", "dcraw_emu" >>

ConversionError(p) ==
  "RAW-conversie mislukt voor " \o OriginalName(p) \o " - geen bruikbare converter gevonden"

\* the input paths ensureRasterInput is applied to
RasterInputs ==
  { FileName("a", ".jpg"), FileName("a", ".dng"), FileName("a", ".DNG"),
    FileName("a", ".cr2"), FileName("b", ".cr3"), FileName("c", ".gif") }

\* what an earlier conversion may have left in the scratch directory
StaleTmp == { FileName("a", ".tif") }

InitRaster ==
  /\ req = [ query |-> [ mode |-> "edit-only", dateText |-> "", eventText |-> "" ],
             photos |-> << >> ]
  /\ cpus = MaxCpus
  /\ pc = "off"
  /\ BatchIdle
  /\ DownloadIdle
  /\ WorkerIdle
  /\ inputPath \in RasterInputs
  /\ rpc = "start"
  /\ tmpFiles \in SUBSET StaleTmp
  /\ sidecar \in BOOLEAN
  /\ attempted = << >>
  /\ result = NoResult
  /\ calls = << >>

\* ensureRasterInput up to the loop: the classification by extension and
\* fs.mkdir(tmpOutDir)
EnsureRasterStart ==
  /\ rpc = "start"
  /\ LET ext == ToLowerCase(inputPath.ext)
     IN IF ext \in RASTER_OK \/ ext \notin RAW_EXTS
          THEN /\ result' = [ kind |-> "path", path |-> inputPath, message |-> "" ]
               /\ rpc' = "returned"
               /\ calls' = Append(calls, [ input |-> inputPath, tif |-> NoFile ])
          ELSE \E ok \in BOOLEAN :
                 IF ok THEN /\ rpc' = "loop"
                            /\ calls' = Append(calls, [ input |-> inputPath,
                                                        tif |-> OutTif(inputPath) ])
                            /\ UNCHANGED result
                 ELSE /\ result' = [ kind |-> "error", path |-> NoFile,
                                     message |-> "EACCES: permission denied, mkdir" ]
                      /\ rpc' = "thrown"
                      /\ calls' = Append(calls, [ input |-> inputPath, tif |-> NoFile ])
  /\ UNCHANGED << batchVars, download, wpc, wrapVars, overlayVars, inputPath, tmpFiles, sidecar, attempted >>

\* Returns without the existsSync(outTif) check
Returns_NoExistsCheck(exit, threw, present) == exit = 0 /\ ~ threw

\* the loop body's decision after runExec and post: existsSync(outTif) after
\* an exit code of 0 returns, anything else goes on to the next attempt
Returns(exit, threw, present) == exit = 0 /\ ~ threw /\ present

\* one iteration of the loop over attempts, and the throw after the last.
\* exit: the tool's exit code (1 also stands for a tool that cannot be
\* started); wrote: the tool created outTif; side: dcraw_emu wrote
\* <base>.tiff next to the input; moved: fs.rename of that file succeeds.
Attempt ==
  /\ rpc = "loop"
  /\ Len(attempted) < Len(Attempts)
  /\ \E exit \in {0, 1}, wrote \in BOOLEAN, side \in BOOLEAN, moved \in BOOLEAN :
       LET cmd == Attempts[Len(attempted) + 1]
           tif == OutTif(inputPath)
           isPost == cmd = "dcraw_emu"
           tmp1 == IF wrote THEN tmpFiles \cup { tif } ELSE tmpFiles
           side1 == sidecar \/ (isPost /\ side)
           rename == exit = 0 /\ isPost /\ tif \notin tmp1 /\ side1
           threw == rename /\ ~ moved
           tmp2 == IF rename /\ moved THEN tmp1 \cup { tif } ELSE tmp1
           side2 == IF rename /\ moved THEN FALSE ELSE side1
           present == tif \in tmp2
           entry == [ cmd |-> cmd, exit |-> exit,
                      produced |-> wrote \/ (rename /\ moved),
                      present |-> present ]
       IN /\ (~ isPost) => (~ side /\ ~ moved)
          /\ (~ rename) => ~ moved
          /\ attempted' = Append(attempted, entry)
          /\ tmpFiles' = tmp2
          /\ sidecar' = side2
          /\ IF Returns(exit, threw, present)
               THEN /\ result' = [ kind |-> "path", path |-> tif, message |-> "" ]
                    /\ rpc' = "returned"
               ELSE IF Len(attempted) + 1 = Len(Attempts)
                 THEN /\ result' = [ kind |-> "error", path |-> NoFile,
                                     message |-> ConversionError(inputPath) ]
                      /\ rpc' = "thrown"
                 ELSE UNCHANGED << result, rpc >>
  /\ UNCHANGED << batchVars, download, wpc, wrapVars, overlayVars, inputPath, calls >>

\* the next call of ensureRasterInput, for another input file: the scratch
\* directory os.tmpdir()/raw2tiff is the same one, with what the earlier calls
\* left in it
EnsureRasterNext ==
  /\ rpc \in { "returned", "thrown" }
  /\ Len(calls) < MaxConversions
  /\ \E p \in RasterInputs :
       /\ \A i \in 1..Len(calls) : calls[i].input # p
       /\ inputPath' = p
  /\ rpc' = "start"
  /\ attempted' = << >>
  /\ result' = NoResult
  /\ UNCHANGED << batchVars, download, wpc, wrapVars, overlayVars, tmpFiles, sidecar, calls >>

NextRaster ==
  \/ EnsureRasterStart
  \/ Attempt
  \/ EnsureRasterNext

SpecRaster == InitRaster /\ [][NextRaster]_vars

\* ------------------------------------------- worker.js: wrapTextToWidth
\* Math.round(num / den) for num >= 0
Round(num, den) == (2 * num + den) \div (2 * den)

clamp(v, lo, hi) == Max(lo, Min(hi, v))

\* makeTextLineSVG: the width of the canvas a line is drawn on
BIG_CANVAS == 8192

\* the horizontal advance of one character of the bold sans-serif face at
\* font-size font, as the SVG renderer lays the line out
Advance(font) == Round(font * 6, 10)

RECURSIVE Chars(_)
\* the characters of a line: its words joined by single spaces
Chars(text) ==
  IF text = << >> THEN 0
  ELSE IF Len(text) = 1 THEN Len(text[1])
  ELSE Len(text[1]) + 1 + Chars(Tail(text))

\* renderTrimmedLine: the line drawn from x = padding on the canvas, trimmed
\* to its ink and measured. A blank line has no ink: width and height are the
\* fallbacks.
renderTrimmedLine(text, font) ==
  IF text = << >>
    THEN [ text |-> text, font |-> font, width |-> 1, height |-> Round(font * 16, 10) ]
    ELSE [ text |-> text, font |-> font,
           width |-> Min(Chars(text) * Advance(font), BIG_CANVAS - Round(font * 3, 10)),
           height |-> font ]

RECURSIVE WrapLoop_FlushDropsWord(_, _, _, _, _, _)
\* WrapLoop with the flush branch starting the new line empty
WrapLoop_FlushDropsWord(words, i, current, lines, font, width) ==
  IF i > Len(words)
    THEN IF current # << >> THEN Append(lines, renderTrimmedLine(current, font))
         ELSE lines
    ELSE LET tryLine == Append(current, words[i])
             measured == renderTrimmedLine(tryLine, font)
         IN IF measured.width <= width
              THEN WrapLoop_FlushDropsWord(words, i + 1, tryLine, lines, font, width)
            ELSE IF current # << >>
              THEN WrapLoop_FlushDropsWord(words, i + 1, << >>,
                            Append(lines, renderTrimmedLine(current, font)), font, width)
            ELSE WrapLoop_FlushDropsWord(words, i + 1, << >>, Append(lines, measured),
                                         font, width)

RECURSIVE WrapLoop(_, _, _, _, _, _)
\* the for loop of wrapTextToWidth from index i on, and the flush after it.
\* current is the line being filled, as its words: `${current} ${words[i]}`
\* appends one word
WrapLoop(words, i, current, lines, font, width) ==
  IF i > Len(words)
    THEN IF current # << >> THEN Append(lines, renderTrimmedLine(current, font))
         ELSE lines
    ELSE LET tryLine == Append(current, words[i])
             measured == renderTrimmedLine(tryLine, font)
         IN IF measured.width <= width
              THEN WrapLoop(words, i + 1, tryLine, lines, font, width)
            ELSE IF current # << >>
              THEN WrapLoop(words, i + 1, << words[i] >>,
                            Append(lines, renderTrimmedLine(current, font)), font, width)
            ELSE WrapLoop(words, i + 1, << >>, Append(lines, measured), font, width)

RECURSIVE MaxWidth(_)
MaxWidth(lines) ==
  IF Len(lines) = 1 THEN lines[1].width
  ELSE Max(lines[1].width, MaxWidth(Tail(lines)))

RECURSIVE SumHeight(_)
SumHeight(lines) ==
  IF lines = << >> THEN 0 ELSE lines[1].height + SumHeight(Tail(lines))

\* wrapTextToWidth; text is fullText.split(/\s+/).filter(Boolean)
wrapTextToWidth(text, font, width) ==
  LET lines == IF text = << >> THEN << renderTrimmedLine(<< >>, font) >>
               ELSE WrapLoop(text, 1, << >>, << >>, font, width)
  IN [ lines |-> lines, totalWidth |-> MaxWidth(lines), totalHeight |-> SumHeight(lines) ]

\* the words a text is made of, the font sizes and the wrap widths
WordSet == { "a", "foto", "kampioenschap" }
MaxWords == 3
FontSizes == { 18, 40, 96 }
WrapWidths == { 48, 108, 546 }

InitWrap ==
  /\ req = [ query |-> [ mode |-> "edit-watermark", dateText |-> "", eventText |-> "" ],
             photos |-> << >> ]
  /\ cpus = MaxCpus
  /\ pc = "off"
  /\ BatchIdle
  /\ RasterIdle
  /\ DownloadIdle
  /\ OverlayIdle
  /\ wpc = "wrap"
  /\ fullText \in SeqsUpTo(WordSet, MaxWords)
  /\ fontSize \in FontSizes
  /\ maxLineWidth \in WrapWidths
  /\ wrapped = << >>

\* one call of wrapTextToWidth
Wrap ==
  /\ wpc = "wrap"
  /\ wrapped' = wrapTextToWidth(fullText, fontSize, maxLineWidth).lines
  /\ wpc' = "wrapped"
  /\ UNCHANGED << batchVars, rasterVars, download, fullText, fontSize, maxLineWidth,
                  overlayVars >>

NextWrap == Wrap

SpecWrap == InitWrap /\ [][NextWrap]_vars

\* ------------------------------------- worker.js: buildWatermarkOverlay
\* workerData defaults: marginEm = 1; textMaxWidthPct = 0.9, in hundredths
marginEm == 1
textMaxWidthPct == 90

\* const baseWidth = meta.width || 2000, baseHeight = meta.height || 1333
BaseWidth(m) == IF m.width = 0 THEN 2000 ELSE m.width
BaseHeight(m) == IF m.height = 0 THEN 1333 ELSE m.height

\* eventFont without the clamp to [18, 96]
EventFont_NoClamp(bw, bh) == Round(Min(bw, bh) * 28, 1000)

\* clamp(Math.round(shortestSide * 0.028), 18, 96); the double product rounds
\* as the exact one does for every shortestSide up to 40000
EventFont(bw, bh) == clamp(Round(Min(bw, bh) * 28, 1000), 18, 96)

\* Math.max(2, Math.round(eventFont * 0.35)). In double arithmetic 90 * 0.35
\* is 31.499999999999996 and rounds to 31; for every other eventFont of
\* 18..96 the product rounds as the exact one does
Padding(font) == Max(2, IF font = 90 THEN 31 ELSE Round(font * 35, 100))
LineGap(font) == Max(2, Round(font * 30, 100))
MarginPx(font) == Max(0, marginEm * font)
MaxTextBlockWidth(bw, font) ==
  Max(120, Round(bw * clamp(textMaxWidthPct, 20, 98), 100) - MarginPx(font))

\* the logo resized to desiredHeight with fit 'inside': [width, height], or
\* 0 x 0 when no file is at logoPath or it cannot be read
ResizedLogo(logo, font) ==
  LET desiredHeight == Round(font * 22, 10)
  IN IF logo.kind = "image"
       THEN [ width |-> Max(1, Round(logo.width * desiredHeight, logo.height)),
              height |-> desiredHeight, buffer |-> TRUE ]
       ELSE [ width |-> 0, height |-> 0, buffer |-> FALSE ]

\* buildWatermarkOverlay, from the base dimensions to the record returned
buildWatermarkOverlay(bw, bh, date, event, logo) ==
  LET eventFont == EventFont(bw, bh)
      padding == Padding(eventFont)
      lineGap == LineGap(eventFont)
      marginPx == MarginPx(eventFont)
      maxTextBlockWidth == MaxTextBlockWidth(bw, eventFont)
      combinedText == event \o date
      resized == ResizedLogo(logo, eventFont)
      textLines == wrapTextToWidth(combinedText, eventFont,
                                   maxTextBlockWidth - 2 * padding).lines
      textBlockWidth == Max(MaxWidth(textLines), 1)
      textBlockHeight ==
        SumHeight(textLines)
          + (IF Len(textLines) > 1 THEN (Len(textLines) - 1) * lineGap ELSE 0)
      contentWidth == Max(resized.width, textBlockWidth)
  IN [ width |-> contentWidth + 2 * padding,
       height |-> padding + (IF resized.buffer THEN resized.height + lineGap ELSE 0)
                    + textBlockHeight + padding,
       fontSize |-> eventFont,
       marginPx |-> marginPx,
       lines |-> textLines,
       logoHeight |-> resized.height ]

\* left without Math.max(0, ...)
Left_NoClamp(bw, wmW, marginPx) == bw - wmW - marginPx

\* const left = Math.max(0, baseWidth - wmW - marginPx)
Left(bw, wmW, marginPx) == Max(0, bw - wmW - marginPx)

\* const top = Math.max(0, baseHeight - wmH - marginPx)
Top(bh, wmH, marginPx) == Max(0, bh - wmH - marginPx)

\* the dimensions image.metadata() reports; 0 stands for a missing value
Metas ==
  { [ width |-> w, height |-> h ] : w \in { 130, 320, 4000 }, h \in { 60, 480, 3000 } }
    \cup { [ width |-> 0, height |-> 0 ] }

\* the file at logoPath: none, an image of the given size, or a file that
\* sharp cannot read
Logos ==
  { NoLogo, [ kind |-> "image", width |-> 400, height |-> 100 ],
    [ kind |-> "image", width |-> 300, height |-> 300 ],
    [ kind |-> "unreadable", width |-> 0, height |-> 0 ] }

\* the texts of a watermark batch: both validated non-empty
EventTexts == SeqsUpTo(WordSet, MaxWords - 1) \ { << >> }
DateTexts == { << "2024-05-01" >> }

InitOverlay ==
  /\ req = [ query |-> [ mode |-> "edit-watermark", dateText |-> "", eventText |-> "" ],
             photos |-> << >> ]
  /\ cpus = MaxCpus
  /\ pc = "off"
  /\ BatchIdle
  /\ RasterIdle
  /\ DownloadIdle
  /\ WrapIdle
  /\ wpc = "build"
  /\ meta \in Metas
  /\ workerData \in [ dateText : DateTexts, eventText : EventTexts ]
  /\ logoFile \in Logos
  /\ overlay = NoOverlay
  /\ composite = [ left |-> 0, top |-> 0 ]

\* worker main: const overlay = await buildWatermarkOverlay({...})
BuildOverlay ==
  /\ wpc = "build"
  /\ overlay' = buildWatermarkOverlay(BaseWidth(meta), BaseHeight(meta),
                                      workerData.dateText, workerData.eventText,
                                      logoFile)
  /\ wpc' = "built"
  /\ UNCHANGED << batchVars, rasterVars, download, wrapVars, meta, workerData,
                  logoFile, composite >>

\* worker main: left and top, handed to image.composite
Composite ==
  /\ wpc = "built"
  /\ composite' = [ left |-> Left(BaseWidth(meta), overlay.width, overlay.marginPx),
                    top |-> Top(BaseHeight(meta), overlay.height, overlay.marginPx) ]
  /\ wpc' = "composited"
  /\ UNCHANGED << batchVars, rasterVars, download, wrapVars, meta, workerData,
                  logoFile, overlay >>

NextOverlay ==
  \/ BuildOverlay
  \/ Composite

SpecOverlay == InitOverlay /\ [][NextOverlay]_vars

\* base dimensions around the places where eventFont changes its rule: below
\* and at the lower clamp (624, 625, 661), a product ending in .5 (875), the
\* default height (1333), 3000, the font of 90 (3214), at and above the upper
\* clamp (3411, 3447, 6000)
Sides == { 1, 624, 625, 661, 875, 1333, 3000, 3214, 3411, 3447, 4000, 6000 }
FontMetas == { [ width |-> w, height |-> h ] : w \in Sides, h \in Sides }

InitFont ==
  /\ req = [ query |-> [ mode |-> "watermark-only", dateText |-> "", eventText |-> "" ],
             photos |-> << >> ]
  /\ cpus = MaxCpus
  /\ pc = "off"
  /\ BatchIdle
  /\ RasterIdle
  /\ DownloadIdle
  /\ WrapIdle
  /\ wpc = "build"
  /\ meta \in FontMetas
  /\ workerData = [ dateText |-> << "2024-05-01" >>, eventText |-> << "Team", "Offsite" >> ]
  /\ logoFile \in Logos
  /\ overlay = NoOverlay
  /\ composite = [ left |-> 0, top |-> 0 ]

SpecFont == InitFont /\ [][NextOverlay]_vars

\* ================================================================= claims
HasBatch == Len(batches) = 1
Terminal == HasBatch /\ Batch.status \in {"done", "error"}
StatusSeen(st) == \E k \in 1..Len(statusLog) : statusLog[k] = st

\* the pool ran to its end and the output directory was listed
PoolChecked == pc \in {"zipping", "finished", "caught"} /\ slots # << >>

\* the worker of file f has run and the parent has handled its events
Settled(f) ==
  /\ \E r \in ran : r.file = f
  /\ \A s \in DOMAIN slots : slots[s].file = f => slots[s].st = "resolved"
Succeeded(f) == Settled(f) /\ \E r \in ran : r.file = f /\ r.end = "done"
Failed(f) ==
  Settled(f) /\ \E r \in ran : r.file = f /\ r.end \notin {"done", "exit0"}
Listed == { files[i] : i \in 1..Len(files) }

\* C1: once the batch status is Done or Error, processed + failed equals total,
\* the number of uploaded file records.
C1_CountersAddUpAtEnd ==
  Terminal => Batch.processed + Batch.failed = Batch.total

\* C2 as claimed: after the pool has completed, a non-empty output directory
\* never leads to Error and an empty one never leads to Zipping or Done.
C2_ErrorIffOutputEmpty ==
  PoolChecked =>
    /\ outDir # {} => Batch.status # "error"
    /\ outDir = {} => Batch.status = "error" /\ ~ StatusSeen("zipping")

\* C2 as amended: after the pool has completed, an empty listing of the output
\* directory (the directory is empty or cannot be read) ends the batch in Error
\* without Zipping or Done; a non-empty listing moves it to Zipping and then
\* Done, and it ends in Error only when the archiver fails.
C2_ErrorIffNoOutputListedOrArchiverFails ==
  PoolChecked =>
    /\ outFiles \in { outDir, {} }
    /\ outFiles = {} =>
         /\ Batch.status = "error"
         /\ Batch.error = NoOutputMessage
         /\ ~ StatusSeen("zipping")
         /\ ~ StatusSeen("done")
    /\ outFiles # {} =>
         /\ StatusSeen("zipping")
         /\ pc = "zipping" => Batch.status = "zipping"
         /\ pc = "finished" => Batch.status = "done"
         /\ pc = "caught" => Batch.status = "error" /\ ~ StatusSeen("done")

C2_Witness ==
  PoolChecked /\ outDir # {} /\ outFiles # {} /\ pc = "caught" /\ Batch.status = "error"

\* C3: per-file isolation.  Every file whose worker failed (error message,
\* error event, non-zero exit) counts in failed and has its record Failed with
\* a non-empty error text; every file whose worker succeeded counts in
\* processed, has its record Ok and left an output; once the pool has joined
\* every listed file was claimed and settled whatever the others did; and with
\* one success or more, a listed output directory and a closed archive the
\* batch is Done.
C3_PerFileIsolation ==
  HasBatch =>
    /\ \A f \in Listed :
         LET i == Find(Batch.files, f)
         IN /\ Succeeded(f) =>
                 /\ Batch.files[i].status = "ok"
                 /\ OutPathFinal(OutputPath(f)) \in outDir
            /\ Failed(f) =>
                 /\ Batch.files[i].status = "failed"
                 /\ Batch.files[i].error \notin {NoError, ""}
    /\ Batch.processed = Cardinality({ f \in Listed : Succeeded(f) })
    /\ Batch.failed = Cardinality({ f \in Listed : Failed(f) })
    /\ PoolChecked => \A f \in Listed : Succeeded(f) \/ Failed(f)
    /\ (PoolChecked /\ outFiles = outDir /\ \E f \in Listed : Succeeded(f)) =>
         /\ StatusSeen("zipping")
         /\ pc = "finished" => Batch.status = "done" /\ zipFile = "complete"

\* three files, one failure: processed = 2, failed = 1, Done
C3_Witness ==
  /\ HasBatch
  /\ Len(files) = 3
  /\ Batch.processed = 2
  /\ Batch.failed = 1
  /\ Batch.status = "done"
  /\ \E i \in 1..Len(Batch.files) :
       Batch.files[i].status = "failed" /\ Batch.files[i].error # NoError

\* C4: if every file of the batch failed in its worker, the batch ends with
\* processed = 0, failed = total and status Error and never passes through
\* Zipping or Done.
C4_AllFailedEndsInError ==
  (PoolChecked /\ \A f \in Listed : Failed(f)) =>
    /\ Batch.processed = 0
    /\ Batch.failed = Batch.total
    /\ Batch.status = "error"
    /\ ~ StatusSeen("zipping")
    /\ ~ StatusSeen("done")

\* C5: the status only moves along uploading, queued, processing, zipping,
\* done, or from a non-terminal status to error; nothing follows done or error.
StatusStep(a, b) ==
  \/ << a, b >> \in { << "uploading", "queued" >>, << "queued", "processing" >>,
                     << "processing", "zipping" >>, << "zipping", "done" >> }
  \/ b = "error" /\ a \in {"uploading", "queued", "processing", "zipping"}

C5_StatusOnlyAdvances ==
  HasBatch =>
    /\ statusLog # << >>
    /\ statusLog[1] = "uploading"
    /\ Batch.status = statusLog[Len(statusLog)]
    /\ \A k \in 1..(Len(statusLog) - 1) : StatusStep(statusLog[k], statusLog[k + 1])

C5_Witness ==
  HasBatch /\ pc = "caught" /\ StatusSeen("zipping") /\ Batch.status = "error"

\* C6: every filename of the file list is claimed from the shared index once,
\* by one pool worker, in list order, none skipped: the filenames handed to
\* the workers are always a prefix of the list, no two slots hold the same
\* filename, and when the pool has joined they are the whole list.
C6_EachFileClaimedOnce ==
  /\ Len(claimed) <= Len(files)
  /\ \A k \in 1..Len(claimed) : claimed[k] = files[k]
  /\ \A s, t \in DOMAIN slots :
       (s # t /\ slots[s].st # "resolved" /\ slots[t].st # "resolved")
         => slots[s].file # slots[t].file
  /\ \A s \in DOMAIN slots :
       slots[s].st # "resolved" => \E k \in 1..Len(claimed) : claimed[k] = slots[s].file
  /\ (pc = "pool" /\ PoolJoined) => claimed = files
  /\ PoolChecked => claimed = files

C6_Witness ==
  /\ pc = "pool"
  /\ PoolJoined
  /\ Len(files) = 3
  /\ Len(slots) = 2
  /\ claimed = files

\* C7: no two worker invocations of a batch write the same output path.
C7_OutputPathsDistinct ==
  \A v, w \in writes : v.out = w.out => v.input = w.input

\* C8: every FileRecord is mutated exactly once, from Queued to Ok or Failed,
\* and when the batch is Done no record is still Queued.
C8_RecordsMutatedOnce ==
  HasBatch =>
    /\ \A i \in DOMAIN updates : updates[i] <= 1
    /\ \A i \in DOMAIN updates : updates[i] = 1 <=> Batch.files[i].status # "queued"
    /\ Batch.status = "done" =>
         \A i \in 1..Len(Batch.files) : Batch.files[i].status # "queued"

\* C9: a known-RAW input is never decoded without a preceding conversion: no
\* path handed to the decoder has a RAW extension.
C9_RawConvertedBeforeDecode ==
  \A path \in decoded : ToLowerCase(path.ext) \notin RAW_EXTS

\* ------------------------------------------------ claims on the converters
\* ensureRasterInput took the RAW branch
RawRun == rpc = "loop" \/ attempted # << >>
RasterEnded == rpc \in {"returned", "thrown"}
Succeeds(e) == e.exit = 0 /\ e.present
ThrewConversionError ==
  rpc = "thrown" /\ result = [ kind |-> "error", path |-> NoFile,
                               message |-> ConversionError(inputPath) ]

\* the converters are tried in the order darktable-cli, rawtherapee-cli,
\* dcraw_emu; an attempt that exits non-zero or leaves no output is followed
\* by the next; the first that exits zero with the output present ends the
\* chain and outTif is returned
ChainOrder ==
  /\ Len(attempted) <= Len(Attempts)
  /\ \A k \in 1..Len(attempted) : attempted[k].cmd = Attempts[k]
  /\ \A k \in 1..(Len(attempted) - 1) : ~ Succeeds(attempted[k])
  /\ (RawRun /\ rpc = "returned") =>
       /\ Succeeds(attempted[Len(attempted)])
       /\ result = [ kind |-> "path", path |-> OutTif(inputPath), message |-> "" ]
  /\ (RawRun /\ rpc = "loop" /\ attempted # << >>) =>
       ~ Succeeds(attempted[Len(attempted)])

\* C10 as claimed: the order and skipping above, and ensureRasterInput fails
\* with the conversion error if and only if every candidate was tried and
\* none produced the output file.
C10_FailsIffNoneProduced ==
  /\ ChainOrder
  /\ (RawRun /\ RasterEnded) =>
       (ThrewConversionError <=>
          /\ Len(attempted) = Len(Attempts)
          /\ \A k \in 1..Len(attempted) : ~ attempted[k].produced)

\* C10 as amended: the order and skipping above, and ensureRasterInput fails
\* with the conversion error naming the original file if and only if every
\* candidate was tried and none exited zero with the output file present,
\* whoever wrote that file.
C10_FailsIffNoneSucceeded ==
  /\ ChainOrder
  /\ (RawRun /\ RasterEnded) =>
       (ThrewConversionError <=>
          /\ Len(attempted) = Len(Attempts)
          /\ \A k \in 1..Len(attempted) : ~ Succeeds(attempted[k]))
  /\ rpc = "thrown" => result.kind = "error"

C10_Witness ==
  /\ ThrewConversionError
  /\ Len(attempted) = 3
  /\ \E k \in 1..3 : attempted[k].exit = 0
  /\ \E k \in 1..3 : attempted[k].exit # 0

\* --------------------------------------------------------------- claim C11
\* the calls of ensureRasterInput that computed an outTif
Converting == { i \in 1..Len(calls) : calls[i].tif # NoFile }

\* C11: two converter invocations for different input files never use the
\* same temporary output path.
C11_TempPathsDistinct ==
  \A i \in Converting, j \in Converting :
    calls[i].input # calls[j].input => calls[i].tif # calls[j].tif

\* --------------------------------------------------------------- claim C12
\* C12: the download operation serves the archive only when the batch status
\* is Done and the archive file exists; for an unknown batch id and in every
\* other status it reports an error and serves nothing, and what it serves is
\* never a partially written archive.
C12_DownloadOnlyWhenDone ==
  download # NoDownload =>
    /\ (download.served # "nothing") <=>
         (download.id = 1 /\ download.at = "done" /\ download.zip # "absent")
    /\ download.served # "nothing" =>
         /\ download.code = 200
         /\ download.served = "complete"
         /\ HasBatch /\ Batch.status = "done"
    /\ download.served = "nothing" => download.code \in { 404, 409 }

C12_Witness ==
  /\ download.code = 200
  /\ download.served = "complete"
  /\ Cardinality(outFiles) = 2

\* --------------------------------------------------------------- claim C13
\* the archiving step was started and did not succeed
ArchiverFailed == pc \in { "caught", "crashed" } /\ StatusSeen("zipping")

\* C13: status Done is reached only after the archiving step has reported
\* success for the output directory and at least one output file exists; if
\* the archiver fails or throws, the batch ends in Error with the exception
\* text recorded and is never Done.
C13_DoneOnlyAfterArchive ==
  HasBatch =>
    /\ StatusSeen("done") =>
         /\ zipFile = "complete"
         /\ outFiles # {}
         /\ outFiles \subseteq outDir
    /\ ArchiverFailed =>
         /\ Batch.status = "error"
         /\ Batch.error \notin { NoError, "" }
         /\ ~ StatusSeen("done")

\* --------------------------------------------------------------- claim C14
CountersWithinTotal ==
  HasBatch => Batch.processed + Batch.failed <= Batch.total

CountersNeverDecrease ==
  HasBatch =>
    /\ Len(batches') = 1
    /\ batches'[1].processed >= Batch.processed
    /\ batches'[1].failed >= Batch.failed

\* C14: in every reachable state of a batch, from its creation to Done or
\* Error, processed + failed <= total, and no step lowers processed or failed.
C14_CountersBoundedAndMonotone ==
  [] CountersWithinTotal /\ [][CountersNeverDecrease]_vars

\* every file of a batch of three was counted, two of them as failed
C14_Witness ==
  /\ HasBatch
  /\ Batch.total = 3
  /\ Batch.processed = 1
  /\ Batch.failed = 2

\* --------------------------------------------------------------- claim C16
RECURSIVE Flatten(_)
\* the words of the lines, read line by line
Flatten(lines) ==
  IF lines = << >> THEN << >> ELSE lines[1].text \o Flatten(Tail(lines))

RequestInvalid ==
  \/ req.query.mode \notin { "edit-watermark", "edit-only", "watermark-only" }
  \/ /\ req.query.mode \in { "edit-watermark", "watermark-only" }
     /\ (req.query.dateText = "" \/ req.query.eventText = "")

\* C17: every batch in the registry has one of the three valid modes, and
\* non-empty dateText and eventText when its mode watermarks; an upload
\* request with a missing or invalid mode, or with a watermarking mode and an
\* empty date or event text, is answered 400 and leaves the registry as it was.
C17_OnlyValidBatchesExist ==
  /\ \A i \in 1..Len(batches) :
       /\ batches[i].mode \in { "edit-watermark", "edit-only", "watermark-only" }
       /\ batches[i].mode \in { "edit-watermark", "watermark-only" } =>
            batches[i].dateText # "" /\ batches[i].eventText # ""
  /\ RequestInvalid =>
       /\ batches = << >>
       /\ statusLog = << >>
       /\ pc \in { "request", "responded" }
       /\ pc = "responded" => res = 400

\* a watermark-only request without a date was answered 400
C17_Witness ==
  /\ pc = "responded"
  /\ res = 400
  /\ req.query.mode = "watermark-only"
  /\ req.query.dateText = ""
  /\ req.photos # << >>
  /\ batches = << >>

\* --------------------------------------------------------------- claim C18
\* the status has left Processing through the check of the output directory
LeftProcessingAfterPool ==
  StatusSeen("zipping") \/ (HasBatch /\ Batch.error = NoOutputMessage)

\* C18: the status leaves Processing for Zipping, or for Error through the
\* empty-output check, only after every pool worker has exhausted the queue:
\* from then on no worker invocation is in flight, every filename was claimed
\* and its outcome recorded, and the archive is written once and only after
\* that point.
C18_ZippingOnlyAfterPoolJoined ==
  /\ LeftProcessingAfterPool =>
       /\ \A s \in DOMAIN slots : slots[s].st = "resolved"
       /\ claimed = files
       /\ \A f \in Listed :
            /\ \E r \in ran : r.file = f /\ r.end # "exit0"
            /\ Find(Batch.files, f) # 0
            /\ Batch.files[Find(Batch.files, f)].status \in { "ok", "failed" }
       /\ Batch.processed + Batch.failed = Len(files)
  /\ zipFile # "absent" =>
       /\ LeftProcessingAfterPool
       /\ Cardinality({ k \in 1..Len(statusLog) : statusLog[k] = "zipping" }) = 1

\* three files on two slots, one of them failed, and the batch is in Zipping
C18_Witness ==
  /\ HasBatch
  /\ Batch.status = "zipping"
  /\ Len(files) = 3
  /\ Len(slots) = 2
  /\ Batch.failed = 1

\* --------------------------------------------------------------- claim C19
\* the worker invocations in flight: started by runWorker and not yet settled
InFlight == { s \in DOMAIN slots : slots[s].st \in { "running", "exited" } }

C20_NoPartialFileUnderFinalName ==
  \A w \in writes :
    /\ w.out \in outDir
    /\ \E r \in ran : r.file = w.input /\ r.end = "done"

\* --------------------------------------------------------------- claim C21
\* C21: for all positive base dimensions the watermark font size is
\* clamp(round(min(baseWidth, baseHeight) * 0.028), 18, 96), so it lies in
\* [18, 96]; the logo is resized to the height round(2.2 * fontSize); a
\* 4000 x 3000 base image gives fontSize 84 and logo height 185.
C21_FontSizeAndLogoHeight ==
  wpc \in { "built", "composited" } =>
    LET shortest == IF meta.width < meta.height THEN meta.width ELSE meta.height
        r == (28 * shortest + 500) \div 1000
        f == overlay.fontSize
    IN /\ 1000 * r - 500 <= 28 * shortest /\ 28 * shortest < 1000 * r + 500
       /\ f = (IF r < 18 THEN 18 ELSE IF r > 96 THEN 96 ELSE r)
       /\ 18 <= f /\ f <= 96
       /\ logoFile.kind = "image" =>
            /\ 10 * overlay.logoHeight - 5 <= 22 * f
            /\ 22 * f < 10 * overlay.logoHeight + 5
       /\ logoFile.kind # "image" => overlay.logoHeight = 0
       /\ (meta.width = 4000 /\ meta.height = 3000) =>
            /\ f = 84
            /\ logoFile.kind = "image" => overlay.logoHeight = 185

\* the 4000 x 3000 image of the scenario, with a logo
C21_Witness ==
  /\ wpc = "built"
  /\ meta = [ width |-> 4000, height |-> 3000 ]
  /\ logoFile.kind = "image"
  /\ overlay.fontSize = 84
  /\ overlay.logoHeight = 185

\* --------------------------------------------------------------- claim C22
\* C22: when every worker invocation eventually ends and the archiver
\* eventually completes or fails, every batch that enters Processing
\* eventually reaches Done or Error, also when a worker thread exits with
\* code 0 without having posted a message.
C22_ProcessingEndsInDoneOrError ==
  (HasBatch /\ Batch.status = "processing")
    ~> (HasBatch /\ Batch.status \in { "done", "error" })
====
